---- MODULE Spec2Model ----
(***************************************************************************)
(* Model of the Nominatim geocoding gateway (D4ZH/addressAPI).             *)
(*                                                                         *)
(*   controllers/nominatimcontroller.py  request handlers (FastAPI)        *)
(*   services/nominatimservices.py       NominatimService                  *)
(*   clients/nominatimClient.py          NominatimClient                   *)
(*   DTOs/nominatimDtos.py               response records                  *)
(*   main.py                             application, 422 handler          *)
(*                                                                         *)
(* A request is followed from its arrival to its answer.  Every handler    *)
(* suspends once, at "await http_client.get(...)": the code before the     *)
(* await is one action, the code after it (the provider has answered, or   *)
(* the transport has failed) is another.                                   *)
(*                                                                         *)
(* Representation of Python values:                                        *)
(*   dict            a function from a set of keys (strings) to values     *)
(*   list            a sequence                                            *)
(*   str query       a sequence of one-character strings                   *)
(*   d.get(k)/None   None == <<>>, a present value v is Some(v) == <<v>>   *)
(*   float lat/lon   an integer number of degrees (integral floats)        *)
(*   f-strings       string concatenation                                  *)
(* Accents of the Spanish messages are dropped in the string literals.     *)
(*                                                                         *)
(* The values of the raw records have the JSON types the DTO fields        *)
(* accept, so constructing a DTO never fails on a type; what can be        *)
(* missing is a key.  An exception the code does not catch leaves the      *)
(* handler and is answered by the framework with a plain 500.              *)
(***************************************************************************)
EXTENDS Integers, Sequences, FiniteSets, TLC

VARIABLES
    pc,        \* request -> "idle" | "awaiting" | "done"
    req,       \* request -> what the caller submitted
    client,    \* request -> the handler's httpx.AsyncClients, opened and closed
    svc,       \* request -> arguments the service method was invoked with
    sent,      \* request -> sequence of outbound GETs issued to the provider
    reply,     \* request -> what the provider answered
    outcome,   \* request -> how the service method ended (return or raise)
    response   \* request -> the HTTP response of the gateway

vars == <<pc, req, client, svc, sent, reply, outcome, response>>

----------------------------------------------------------------------------
(* Bounds of the model *)

MaxQueryLen == 3     \* longest query string, in characters
MaxRecords == 2      \* longest sequence of raw records in a provider body

----------------------------------------------------------------------------
(* Python values *)

None == <<>>
Some(v) == <<v>>

\* dict.get(k): the value, or None when the key is missing
Get(d, k) == IF k \in DOMAIN d THEN Some(d[k]) ELSE None

\* dict literals with one key removed / set
Without(d, k) == [f \in DOMAIN d \ {k} |-> d[f]]
With(d, k, v) == [f \in DOMAIN d \cup {k} |-> IF f = k THEN v ELSE d[f]]

\* Truth value of d.get(k) when the value, if present, is a dict:
\* None and the empty dict are falsy
TruthyDict(opt) == opt # None /\ DOMAIN opt[1] # {}

\* str(): characters of a query joined into a string
RECURSIVE Join(_)
Join(s) == IF s = <<>> THEN "" ELSE Head(s) \o Join(Tail(s))

\* f"{x}" of an integral float: Python prints the ".0"
FloatStr(x) == ToString(x) \o ".0"

\* Characters of the model's queries; Whitespace is what str.strip() removes
Whitespace == {" ", "\t", "\n", "\r"}
Chars == {" ", "a"}

RECURSIVE SeqsUpTo(_, _)
SeqsUpTo(S, n) ==
    IF n = 0 THEN {<<>>}
    ELSE LET shorter == SeqsUpTo(S, n - 1)
         IN  shorter \cup {Append(s, x) : s \in {t \in shorter : Len(t) = n - 1}, x \in S}

RECURSIVE LStrip(_)
LStrip(s) == IF s # <<>> /\ Head(s) \in Whitespace THEN LStrip(Tail(s)) ELSE s

RECURSIVE RStrip(_)
RStrip(s) ==
    IF s # <<>> /\ s[Len(s)] \in Whitespace THEN RStrip(SubSeq(s, 1, Len(s) - 1)) ELSE s

\* str.strip() that forgets the trailing whitespace (mutant of strip)
strip_LeadingOnly(s) == LStrip(s)

\* str.strip()
strip(s) == RStrip(LStrip(s))

----------------------------------------------------------------------------
(* Raw records of the provider *)

RequiredKeys == <<"place_id", "lat", "lon", "display_name">>

AddressFields ==
    {"house_number", "road", "neighbourhood", "city", "state", "postcode",
     "country", "country_code"}

FullAddress ==
    [house_number |-> "1600", road |-> "Amphitheatre Parkway",
     neighbourhood |-> "North Bayshore", city |-> "Mountain View",
     state |-> "California", postcode |-> "94043",
     country |-> "United States", country_code |-> "us"]

\* A record with every key the mapping reads (importance in hundredths)
FullRecord(pid, la, lo) ==
    [place_id |-> pid, licence |-> "ODbL 1.0", osm_type |-> "way", osm_id |-> 7,
     lat |-> la, lon |-> lo, display_name |-> "1600 Amphitheatre Parkway",
     class |-> "place", type |-> "house", importance |-> 50,
     address |-> FullAddress]

RecordA == FullRecord(123456, "37.4224764", "-122.0842499")
RecordB == FullRecord(2, "37.4225", "-122.0843")

\* Only the keys the mapping reads with d[k]
MinimalRecord == [k \in {"place_id", "lat", "lon", "display_name"} |-> RecordB[k]]

ErrorRecord == [error |-> "Unable to geocode"]

RawRecords ==
    {RecordA, RecordB, MinimalRecord, ErrorRecord}
    \cup {Without(RecordA, RequiredKeys[i]) : i \in 1..Len(RequiredKeys)}
    \cup {Without(RecordA, "licence"),
          With(RecordA, "error", "Unable to geocode"),
          With(RecordA, "address", [k \in {} |-> ""]),
          With(RecordA, "address", Without(FullAddress, "postcode")),
          With(RecordA, "address", [suburb |-> "Shoreline"])}

\* Decoded bodies of a provider response, one shape per JSON type;
\* "invalid" is a body json() rejects
ListBody(l) == [t |-> "list", items |-> l]
ObjectBody(d) == [t |-> "object", fields |-> d]
StringBody(x) == [t |-> "string", text |-> x]
OtherBody(t) == [t |-> t]

\* Records combined freely into sequences; every other raw record is tried
\* alone, after a complete record and before one
CoreRecords == {RecordA, RecordB, MinimalRecord, Without(RecordA, "lat")}

RawLists ==
    SeqsUpTo(CoreRecords, MaxRecords)
    \cup {<<d>> : d \in RawRecords}
    \cup {<<RecordA, d>> : d \in RawRecords}
    \cup {<<d, RecordB>> : d \in RawRecords}

ListBodies == {ListBody(l) : l \in RawLists}
ObjectBodies == {ObjectBody(d) : d \in RawRecords}
ScalarBodies ==
    {StringBody("ok"), StringBody("error"), OtherBody("number"), OtherBody("null"),
     OtherBody("invalid")}

Bodies == ListBodies \cup ObjectBodies \cup ScalarBodies

\* Bodies tried with a status other than 200
ErrorBodies ==
    {ListBody(<<>>), ListBody(<<RecordA>>), ObjectBody(RecordA),
     ObjectBody(ErrorRecord), StringBody("error"), OtherBody("invalid")}

OkStatus == 200
ErrorStatuses == {400, 403, 404, 429, 500, 503, 418, 204}

Replies ==
    {[status |-> OkStatus, body |-> b] : b \in Bodies}
    \cup {[status |-> s, body |-> b] : s \in ErrorStatuses, b \in ErrorBodies}

----------------------------------------------------------------------------
(* Outcomes of a call: a returned value or a raised exception *)

Return(v) == [kind |-> "return", value |-> v]
HTTPException(code, msg) == [kind |-> "HTTPException", status_code |-> code, detail |-> msg]
\* Exceptions the code does not catch: KeyError, AttributeError, TypeError,
\* json decoding errors, httpx transport errors
Uncaught(name, arg) == [kind |-> "uncaught", exc |-> name, arg |-> arg]

Raised(o) == o.kind \in {"HTTPException", "uncaught"}

----------------------------------------------------------------------------
(* clients/nominatimClient.py *)

error_names ==
    [c \in {400, 403, 404, 429, 500, 503} |->
        CASE c = 400 -> "Bad Request"
          [] c = 403 -> "Forbidden"
          [] c = 404 -> "Not Found"
          [] c = 429 -> "Too Many Requests"
          [] c = 500 -> "Internal Server Error"
          [] c = 503 -> "Service Unavailable"]

error_reasons ==
    [c \in {400, 403, 404, 429, 500, 503} |->
        CASE c = 400 -> "Parametros invalidos o faltantes"
          [] c = 403 -> "User-Agent requerido o acceso denegado"
          [] c = 404 -> "Recurso no encontrado"
          [] c = 429 -> "Limite de peticiones excedido. Por favor, intenta mas tarde"
          [] c = 500 -> "Error interno del servidor"
          [] c = 503 -> "Servicio temporalmente no disponible"]

\* NominatimClient._get_error_message (the operation argument is not used)
get_error_message(status_code) ==
    LET error_name ==
            IF status_code \in DOMAIN error_names THEN error_names[status_code]
            ELSE "HTTP " \o ToString(status_code)
        error_reason ==
            IF status_code \in DOMAIN error_reasons THEN error_reasons[status_code]
            ELSE "Error HTTP " \o ToString(status_code)
    IN  "Error " \o ToString(status_code) \o " " \o error_name \o ": " \o error_reason

\* Every upstream failure reported as a 500 (mutant of StatusError)
StatusError_Always500(status_code) == HTTPException(500, get_error_message(status_code))

\* The non-200 branch of both client methods
StatusError(status_code) == HTTPException(status_code, get_error_message(status_code))

\* The outbound GETs
SearchCall(query, limit) ==
    [endpoint |-> "/search", q |-> query, limit |-> limit, format |-> "json",
     addressdetails |-> 1, extratags |-> 1, namedetails |-> 1]

ReverseCall(lat, lon) ==
    [endpoint |-> "/reverse", lat |-> lat, lon |-> lon, format |-> "json",
     addressdetails |-> 1, extratags |-> 1, namedetails |-> 1]

\* A non-list body taken for "no results" (mutant of ClientSearch)
ClientSearch_NonListAsEmpty(r) ==
    IF r.status # OkStatus THEN StatusError(r.status)
    ELSE IF r.body.t = "invalid" THEN Uncaught("JSONDecodeError", "")
    ELSE IF r.body.t # "list" THEN Return(ListBody(<<>>))
    ELSE Return(r.body)

\* NominatimClient.search_address, after the response has arrived
ClientSearch(r) ==
    IF r.status # OkStatus THEN StatusError(r.status)
    ELSE IF r.body.t = "invalid" THEN Uncaught("JSONDecodeError", "")
    ELSE IF r.body.t # "list" THEN
        HTTPException(500,
            "Error 500 Internal Server Error: Respuesta inesperada de la API de Nominatim")
    ELSE Return(r.body)

\* The payload is trusted whenever it carries a place (mutant of HasError)
HasError_UnlessPlace(body) ==
    body.t = "object" /\ "error" \in DOMAIN body.fields /\ "place_id" \notin DOMAIN body.fields

\* "error" in data, for each type json() can produce
HasError(body) ==
    CASE body.t = "object" -> "error" \in DOMAIN body.fields
      [] body.t = "list"   -> FALSE     \* no element of the model's lists is a string
      [] body.t = "string" -> body.text = "error"   \* substring test
      [] OTHER             -> FALSE     \* not reached: TypeError, see ClientReverse

\* The error payload looked for before the status is tested (mutant of
\* ClientReverse)
ClientReverse_BodyFirst(r, lat, lon) ==
    IF r.body.t = "object" /\ HasError(r.body) THEN
        HTTPException(404,
            "Error 404 Not Found: No se encontro una direccion para las coordenadas ("
                \o FloatStr(lat) \o ", " \o FloatStr(lon) \o ")")
    ELSE IF r.status # OkStatus THEN StatusError(r.status)
    ELSE IF r.body.t = "invalid" THEN Uncaught("JSONDecodeError", "")
    ELSE IF r.body.t \in {"number", "null"} THEN Uncaught("TypeError", "")
    ELSE Return(r.body)

\* NominatimClient.reverse_geocode, after the response has arrived
ClientReverse(r, lat, lon) ==
    IF r.status # OkStatus THEN StatusError(r.status)
    ELSE IF r.body.t = "invalid" THEN Uncaught("JSONDecodeError", "")
    ELSE IF r.body.t \in {"number", "null"} THEN Uncaught("TypeError", "")
    ELSE IF HasError(r.body) THEN
        HTTPException(404,
            "Error 404 Not Found: No se encontro una direccion para las coordenadas ("
                \o FloatStr(lat) \o ", " \o FloatStr(lon) \o ")")
    ELSE Return(r.body)

----------------------------------------------------------------------------
(* services/nominatimservices.py: the mapping *)

\* address_data.get(f, ""): a missing key defaulted to the empty string
\* (mutant of build_address_dto)
build_address_dto_EmptyDefault(address_data) ==
    [f \in AddressFields |-> IF f \in DOMAIN address_data THEN Some(address_data[f]) ELSE Some("")]

\* NominatimService._build_address_dto
build_address_dto(address_data) == [f \in AddressFields |-> Get(address_data, f)]

\* address = None; if d.get("address"): address = _build_address_dto(...)
\* `if "address" in d`: an Address for every address key, the empty object
\* included (mutant of AddressOf)
AddressOf_IfPresent(d) ==
    IF "address" \in DOMAIN d THEN Some(build_address_dto(d["address"])) ELSE None

AddressOf(d) ==
    IF TruthyDict(Get(d, "address")) THEN Some(build_address_dto(d["address"])) ELSE None

\* The first key read with d[k] that the record lacks (0: none), in the order
\* the keyword arguments are evaluated
FirstMissing(d) ==
    IF \A i \in 1..Len(RequiredKeys) : RequiredKeys[i] \in DOMAIN d THEN 0
    ELSE CHOOSE i \in 1..Len(RequiredKeys) :
            /\ RequiredKeys[i] \notin DOMAIN d
            /\ \A j \in 1..(i - 1) : RequiredKeys[j] \in DOMAIN d

\* A placeholder text for the missing licence (mutant of LicenceOf)
LicenceOf_Placeholder(d) == IF "licence" \in DOMAIN d THEN d["licence"] ELSE "unknown"

\* licence=d.get("licence", "")
LicenceOf(d) == IF "licence" \in DOMAIN d THEN d["licence"] ELSE ""

\* NominatimService._build_location_dto
build_location_dto(location_data) ==
    IF FirstMissing(location_data) # 0
    THEN Uncaught("KeyError", RequiredKeys[FirstMissing(location_data)])
    ELSE Return(
        [place_id |-> location_data["place_id"],
         licence |-> LicenceOf(location_data),
         osm_type |-> Get(location_data, "osm_type"),
         osm_id |-> Get(location_data, "osm_id"),
         lat |-> location_data["lat"],
         lon |-> location_data["lon"],
         display_name |-> location_data["display_name"],
         class_type |-> Get(location_data, "class"),
         type |-> Get(location_data, "type"),
         importance |-> Get(location_data, "importance"),
         address |-> AddressOf(location_data)])

\* The loop with locations.insert(0, location) (mutant of BuildLocations)
RECURSIVE BuildLocations_Prepend(_, _)
BuildLocations_Prepend(search_data, locations) ==
    IF search_data = <<>> THEN Return(locations)
    ELSE LET location == build_location_dto(Head(search_data))
         IN  IF Raised(location) THEN location
             ELSE BuildLocations_Prepend(Tail(search_data), <<location.value>> \o locations)

\* The loop with the failing records skipped (mutant of BuildLocations)
RECURSIVE BuildLocations_SkipFailed(_, _)
BuildLocations_SkipFailed(search_data, locations) ==
    IF search_data = <<>> THEN Return(locations)
    ELSE LET location == build_location_dto(Head(search_data))
         IN  BuildLocations_SkipFailed(Tail(search_data),
                IF Raised(location) THEN locations ELSE Append(locations, location.value))

\* The loop of search_address: the locations built so far, or the exception
\* of the first record whose mapping raises
RECURSIVE BuildLocations(_, _)
BuildLocations(search_data, locations) ==
    IF search_data = <<>> THEN Return(locations)
    ELSE LET location == build_location_dto(Head(search_data))
         IN  IF Raised(location) THEN location
             ELSE BuildLocations(Tail(search_data), Append(locations, location.value))

\* total=len(locations)
TotalOf(locations) == Len(locations)

\* search_address without "if not search_data" (mutant of SearchAfterClient)
SearchAfterClient_NoEmptyCheck(query, got) ==
    IF Raised(got) THEN got
    ELSE LET built == BuildLocations(got.value.items, <<>>)
         IN  IF Raised(built) THEN built
             ELSE Return([results |-> built.value,
                          total |-> TotalOf(built.value),
                          query |-> query])

\* NominatimService.search_address, from the client's outcome on;
\* query is the trimmed query
SearchAfterClient(query, got) ==
    IF Raised(got) THEN got
    ELSE IF got.value.items = <<>> THEN
        HTTPException(404,
            "Error 404 Not Found: No se encontraron ubicaciones para '"
                \o Join(query) \o "'")
    ELSE LET built == BuildLocations(got.value.items, <<>>)
         IN  IF Raised(built) THEN built
             ELSE Return([results |-> built.value,
                          total |-> TotalOf(built.value),
                          query |-> query])

\* The two inputs exchanged (mutant of InputEcho)
InputEcho_Swapped(lat, lon) == [lat_input |-> lon, lon_input |-> lat]

\* lat_input=lat, lon_input=lon
InputEcho(lat, lon) == [lat_input |-> lat, lon_input |-> lon]

\* NominatimService.reverse_geocode, from the client's outcome on
ReverseAfterClient(lat, lon, got) ==
    IF Raised(got) THEN got
    ELSE IF got.value.t # "object" THEN Uncaught("AttributeError", "get")
    ELSE LET reverse_data == got.value.fields
         IN  IF FirstMissing(reverse_data) # 0
             THEN Uncaught("KeyError", RequiredKeys[FirstMissing(reverse_data)])
             ELSE Return(
                [place_id |-> reverse_data["place_id"],
                 licence |-> LicenceOf(reverse_data),
                 osm_type |-> Get(reverse_data, "osm_type"),
                 osm_id |-> Get(reverse_data, "osm_id"),
                 lat |-> reverse_data["lat"],
                 lon |-> reverse_data["lon"],
                 display_name |-> reverse_data["display_name"],
                 class_type |-> Get(reverse_data, "class"),
                 type |-> Get(reverse_data, "type"),
                 address |-> AddressOf(reverse_data),
                 lat_input |-> InputEcho(lat, lon).lat_input,
                 lon_input |-> InputEcho(lat, lon).lon_input])

----------------------------------------------------------------------------
(* services/nominatimservices.py: the code before the await *)

\* What a method does up to its await: it raises, or it issues one GET
Await(call) == [kind |-> "await", call |-> call]

\* if not query (query already trimmed)
QueryIsEmpty(query) == query = <<>>

\* The emptiness test made on the untrimmed argument (mutant of SearchEnter)
SearchEnter_TestUntrimmed(query_arg, limit) ==
    IF QueryIsEmpty(query_arg) THEN
        HTTPException(400,
            "Error 400 Bad Request: El termino de busqueda no puede estar vacio")
    ELSE Await(SearchCall(strip(query_arg), limit))

\* NominatimService.search_address, lines 105-115
SearchEnter(query_arg, limit) ==
    LET query == strip(query_arg)
    IN  IF QueryIsEmpty(query) THEN
            HTTPException(400,
                "Error 400 Bad Request: El termino de busqueda no puede estar vacio")
        ELSE Await(SearchCall(query, limit))

\* The poles excluded (mutant of LatInRange)
LatInRange_Exclusive(lat) == -90 < lat /\ lat < 90

LatInRange(lat) == -90 <= lat /\ lat <= 90
LonInRange(lon) == -180 <= lon /\ lon <= 180

\* NominatimService.reverse_geocode, lines 158-172
ReverseEnter(lat, lon) ==
    IF ~LatInRange(lat) THEN
        HTTPException(400, "Error 400 Bad Request: La latitud debe estar entre -90 y 90")
    ELSE IF ~LonInRange(lon) THEN
        HTTPException(400, "Error 400 Bad Request: La longitud debe estar entre -180 y 180")
    ELSE Await(ReverseCall(lat, lon))

----------------------------------------------------------------------------
(* controllers/nominatimcontroller.py and main.py: the HTTP surface *)

DEFAULT_LIMIT == 10
MIN_LIMIT == 1
MAX_LIMIT == 50

ParamError(name, msg) == [loc |-> <<"query", name>>, msg |-> msg]

\* Query(..., ge=lo, lt=hi): the upper bound excluded (mutant of RangeErrors)
RangeErrors_UpperExcluded(name, x, lo, hi) ==
    IF x < lo THEN
        <<ParamError(name, "Input should be greater than or equal to " \o ToString(lo))>>
    ELSE IF x >= hi THEN
        <<ParamError(name, "Input should be less than " \o ToString(hi))>>
    ELSE <<>>

\* Query(..., ge=lo, le=hi) on one number
RangeErrors(name, x, lo, hi) ==
    IF x < lo THEN
        <<ParamError(name, "Input should be greater than or equal to " \o ToString(lo))>>
    ELSE IF x > hi THEN
        <<ParamError(name, "Input should be less than or equal to " \o ToString(hi))>>
    ELSE <<>>

\* q: str = Query(...); limit: int = Query(default=10, ge=1, le=50)
SearchParamErrors(q, limit) ==
    (IF q = None THEN <<ParamError("q", "Field required")>> ELSE <<>>)
    \o (IF limit = None THEN <<>> ELSE RangeErrors("limit", limit[1], MIN_LIMIT, MAX_LIMIT))

\* lat: float = Query(...); lon: float = Query(...): no bounds declared
\* (mutant of ReverseParamErrors)
ReverseParamErrors_Unbounded(lat, lon) == <<>>

\* lat: float = Query(..., ge=-90, le=90); lon: float = Query(..., ge=-180, le=180)
ReverseParamErrors(lat, lon) ==
    RangeErrors("lat", lat, -90, 90) \o RangeErrors("lon", lon, -180, 180)

\* The limit the handler body receives
LimitParam(limit) == IF limit = None THEN DEFAULT_LIMIT ELSE limit[1]

RECURSIVE JoinWith(_, _)
JoinWith(sep, strs) ==
    IF strs = <<>> THEN ""
    ELSE IF Len(strs) = 1 THEN strs[1]
    ELSE strs[1] \o sep \o JoinWith(sep, Tail(strs))

\* main.validation_exception_handler
validation_exception_handler(errors) ==
    LET error_messages ==
            [i \in 1..Len(errors) |->
                JoinWith(" -> ", errors[i].loc) \o ": " \o errors[i].msg]
    IN  [status |-> 422,
         body |-> [detail |-> "Error 422 Unprocessable Content: "
                                \o JoinWith("; ", error_messages)]]

\* response_model serialisation: fields are written under their alias
ByAlias(dto) ==
    IF "class_type" \in DOMAIN dto
    THEN [k \in (DOMAIN dto \ {"class_type"}) \cup {"class"} |->
            IF k = "class" THEN dto["class_type"] ELSE dto[k]]
    ELSE dto

Serialize(dto) ==
    IF "results" \in DOMAIN dto
    THEN [dto EXCEPT !.results = [i \in 1..Len(dto.results) |-> ByAlias(dto.results[i])]]
    ELSE ByAlias(dto)

\* Statuses whose response carries a body: the framework's handler of
\* HTTPException sends none for 1xx, 204, 205 and 304
BodyAllowed(status_code) == status_code >= 200 /\ status_code \notin {204, 205, 304}

\* The HTTP response FastAPI builds from the way the handler body ended
HttpResponse(o) ==
    CASE o.kind = "return"        -> [status |-> 200, body |-> Serialize(o.value)]
      [] o.kind = "HTTPException" -> [status |-> o.status_code,
                                      body |-> IF BodyAllowed(o.status_code)
                                               THEN [detail |-> o.detail]
                                               ELSE [k \in {} |-> ""]]
      [] o.kind = "uncaught"      -> [status |-> 500, body |-> "Internal Server Error"]

NoResponse == [status |-> 0, body |-> None]
NoOutcome == [kind |-> "none"]
NoRequest == [op |-> "none", entry |-> "none"]

\* A request arrives over HTTP ("http") or is a direct call of the service
\* method with a client of the caller ("service", as in the class docstring)
RespondTo(entry, o) == IF entry = "http" THEN HttpResponse(o) ELSE NoResponse

\* The handler's clients: how many httpx.AsyncClient() it has opened and how
\* many of them it has closed.  A direct call of the service method runs no
\* handler: its client belongs to the caller and is not counted.
NoClient == [opened |-> 0, closed |-> 0]

\* async with httpx.AsyncClient() as http_client: leaving the block, by
\* return or by an exception
ClientAfter(entry, c) == IF entry = "http" THEN [c EXCEPT !.closed = @ + 1] ELSE c

\* async with httpx.AsyncClient() as http_client: entering the block
ClientDuring(entry, c) == IF entry = "http" THEN [c EXCEPT !.opened = @ + 1] ELSE c

----------------------------------------------------------------------------
(* Inputs of the model *)

Queries == SeqsUpTo(Chars, MaxQueryLen) \cup {<<"\t">>, <<"\t", "a", "\n">>}
HttpLimits == {None, Some(0), Some(1), Some(50), Some(51)}
ServiceLimits == {5, 100}
Lats == {-91, -90, 37, 90, 91}
Lons == {-181, -180, -122, 180, 181}

----------------------------------------------------------------------------
(* The state machine *)

Requests == DOMAIN pc

Init ==
    /\ pc = [r \in {1} |-> "idle"]
    /\ req = [r \in {1} |-> NoRequest]
    /\ client = [r \in {1} |-> NoClient]
    /\ svc = [r \in {1} |-> None]
    /\ sent = [r \in {1} |-> <<>>]
    /\ reply = [r \in {1} |-> None]
    /\ outcome = [r \in {1} |-> NoOutcome]
    /\ response = [r \in {1} |-> NoResponse]

\* The handler body up to its await: enter is what the service method did
Begin(r, entry, enter) ==
    IF Raised(enter)
    THEN /\ pc' = [pc EXCEPT ![r] = "done"]
         /\ client' = [client EXCEPT ![r] = ClientAfter(entry, ClientDuring(entry, @))]
         /\ outcome' = [outcome EXCEPT ![r] = enter]
         /\ response' = [response EXCEPT ![r] = RespondTo(entry, enter)]
         /\ UNCHANGED sent
    ELSE /\ pc' = [pc EXCEPT ![r] = "awaiting"]
         /\ client' = [client EXCEPT ![r] = ClientDuring(entry, @)]
         /\ sent' = [sent EXCEPT ![r] = Append(@, enter.call)]
         /\ UNCHANGED <<outcome, response>>

\* A call that ended in an error is issued once more (mutant of Finish)
Finish_RetryOnError(r, o) ==
    IF Raised(o) /\ Len(sent[r]) < 2
    THEN /\ sent' = [sent EXCEPT ![r] = Append(@, @[1])]
         /\ UNCHANGED <<pc, client, outcome, response, req, svc>>
    ELSE /\ pc' = [pc EXCEPT ![r] = "done"]
         /\ client' = [client EXCEPT ![r] = ClientAfter(req[r].entry, @)]
         /\ outcome' = [outcome EXCEPT ![r] = o]
         /\ response' = [response EXCEPT ![r] = RespondTo(req[r].entry, o)]
         /\ UNCHANGED <<req, svc, sent>>

\* The client closed after a returned result only, as by a close() that
\* follows the await without try/finally (mutant of Finish)
Finish_CloseOnReturnOnly(r, o) ==
    /\ pc' = [pc EXCEPT ![r] = "done"]
    /\ client' = [client EXCEPT ![r] = IF Raised(o) THEN @ ELSE ClientAfter(req[r].entry, @)]
    /\ outcome' = [outcome EXCEPT ![r] = o]
    /\ response' = [response EXCEPT ![r] = RespondTo(req[r].entry, o)]
    /\ UNCHANGED <<req, svc, sent>>

\* The handler body from its await on: o is how the service method ended
Finish(r, o) ==
    /\ pc' = [pc EXCEPT ![r] = "done"]
    /\ client' = [client EXCEPT ![r] = ClientAfter(req[r].entry, @)]
    /\ outcome' = [outcome EXCEPT ![r] = o]
    /\ response' = [response EXCEPT ![r] = RespondTo(req[r].entry, o)]
    /\ UNCHANGED <<req, svc, sent>>

\* The parameter layer refuses the request: the handler body does not run
Reject(r, errors) ==
    /\ pc' = [pc EXCEPT ![r] = "done"]
    /\ response' = [response EXCEPT ![r] = validation_exception_handler(errors)]
    /\ UNCHANGED <<client, svc, sent, outcome>>

\* GET /api/nominatim/search
HttpSearch(r, q, limit) ==
    /\ pc[r] = "idle"
    /\ req' = [req EXCEPT ![r] = [op |-> "search", entry |-> "http", q |-> q, limit |-> limit]]
    /\ UNCHANGED reply
    /\ IF SearchParamErrors(q, limit) # <<>>
       THEN Reject(r, SearchParamErrors(q, limit))
       ELSE /\ svc' = [svc EXCEPT ![r] = Some([query |-> q[1], limit |-> LimitParam(limit)])]
            /\ Begin(r, "http", SearchEnter(q[1], LimitParam(limit)))

\* await NominatimService().search_address(query, limit, http_client)
CallSearch(r, query, limit) ==
    /\ pc[r] = "idle"
    /\ req' = [req EXCEPT ![r] =
                [op |-> "search", entry |-> "service", q |-> Some(query), limit |-> Some(limit)]]
    /\ svc' = [svc EXCEPT ![r] = Some([query |-> query, limit |-> limit])]
    /\ UNCHANGED reply
    /\ Begin(r, "service", SearchEnter(query, limit))

\* GET /api/nominatim/reverse
HttpReverse(r, lat, lon) ==
    /\ pc[r] = "idle"
    /\ req' = [req EXCEPT ![r] = [op |-> "reverse", entry |-> "http", lat |-> lat, lon |-> lon]]
    /\ UNCHANGED reply
    /\ IF ReverseParamErrors(lat, lon) # <<>>
       THEN Reject(r, ReverseParamErrors(lat, lon))
       ELSE /\ svc' = [svc EXCEPT ![r] = Some([lat |-> lat, lon |-> lon])]
            /\ Begin(r, "http", ReverseEnter(lat, lon))

\* await NominatimService().reverse_geocode(lat, lon, http_client)
CallReverse(r, lat, lon) ==
    /\ pc[r] = "idle"
    /\ req' = [req EXCEPT ![r] = [op |-> "reverse", entry |-> "service", lat |-> lat, lon |-> lon]]
    /\ svc' = [svc EXCEPT ![r] = Some([lat |-> lat, lon |-> lon])]
    /\ UNCHANGED reply
    /\ Begin(r, "service", ReverseEnter(lat, lon))

\* One service object for all requests, its query attribute overwritten by
\* the latest search (mutant of SearchAnswered)
SearchAnswered_SharedService(r, rep) ==
    /\ pc[r] = "awaiting"
    /\ req[r].op = "search"
    /\ reply' = [reply EXCEPT ![r] = Some(rep)]
    /\ LET searches == {x \in Requests : req[x].op = "search" /\ svc[x] # None}
           latest == CHOOSE x \in searches : \A y \in searches : y <= x
       IN  Finish(r, SearchAfterClient(strip(svc[latest][1].query), ClientSearch(rep)))

\* The provider answers the GET of a search; query is the local variable
\* of search_address, which holds the trimmed query since line 106
SearchAnswered(r, rep) ==
    /\ pc[r] = "awaiting"
    /\ req[r].op = "search"
    /\ reply' = [reply EXCEPT ![r] = Some(rep)]
    /\ Finish(r, SearchAfterClient(strip(svc[r][1].query), ClientSearch(rep)))

\* The provider answers the GET of a reverse lookup
ReverseAnswered(r, rep) ==
    /\ pc[r] = "awaiting"
    /\ req[r].op = "reverse"
    /\ reply' = [reply EXCEPT ![r] = Some(rep)]
    /\ Finish(r, ReverseAfterClient(svc[r][1].lat, svc[r][1].lon,
                                    ClientReverse(rep, svc[r][1].lat, svc[r][1].lon)))

\* http_client.get raises (timeout after TIMEOUT_SECONDS, connection error)
TransportFails(r) ==
    /\ pc[r] = "awaiting"
    /\ UNCHANGED reply
    /\ Finish(r, Uncaught("httpx.TransportError", ""))

Next ==
    \/ \E r \in Requests, q \in {None} \cup {Some(x) : x \in Queries}, limit \in HttpLimits :
            HttpSearch(r, q, limit)
    \/ \E r \in Requests, query \in Queries, limit \in ServiceLimits :
            CallSearch(r, query, limit)
    \/ \E r \in Requests, lat \in Lats, lon \in Lons : HttpReverse(r, lat, lon)
    \/ \E r \in Requests, lat \in Lats, lon \in Lons : CallReverse(r, lat, lon)
    \/ \E r \in Requests, rep \in Replies : SearchAnswered(r, rep)
    \/ \E r \in Requests, rep \in Replies : ReverseAnswered(r, rep)
    \/ \E r \in Requests : TransportFails(r)

Spec == Init /\ [][Next]_vars

\* The await of http_client.get does not last for ever: the provider answers
\* or the client gives up after TIMEOUT_SECONDS
Completes(r) ==
    \/ \E rep \in Replies : SearchAnswered(r, rep)
    \/ \E rep \in Replies : ReverseAnswered(r, rep)
    \/ TransportFails(r)

SpecLive == Spec /\ \A r \in {1} : WF_vars(Completes(r))

----------------------------------------------------------------------------
(* Two requests in flight at once *)

ConcQueries == {<<" ">>, <<"a">>, <<" ", "b">>}
ConcLimits == {None, Some(51)}
ConcLats == {37, 91}
ConcLons == {-122}
ConcReplies ==
    {[status |-> OkStatus, body |-> b] :
        b \in {ListBody(<<>>), ListBody(<<RecordA>>), ListBody(<<RecordB, RecordA>>),
               ObjectBody(RecordB), ObjectBody(ErrorRecord)}}
    \cup {[status |-> 404, body |-> ListBody(<<RecordA>>)]}

InitConc ==
    /\ pc = [r \in {1, 2} |-> "idle"]
    /\ req = [r \in {1, 2} |-> NoRequest]
    /\ client = [r \in {1, 2} |-> NoClient]
    /\ svc = [r \in {1, 2} |-> None]
    /\ sent = [r \in {1, 2} |-> <<>>]
    /\ reply = [r \in {1, 2} |-> None]
    /\ outcome = [r \in {1, 2} |-> NoOutcome]
    /\ response = [r \in {1, 2} |-> NoResponse]

NextConc ==
    \/ \E r \in Requests, q \in {Some(x) : x \in ConcQueries}, limit \in ConcLimits :
            HttpSearch(r, q, limit)
    \/ \E r \in Requests, query \in ConcQueries : CallSearch(r, query, 5)
    \/ \E r \in Requests, lat \in ConcLats, lon \in ConcLons : HttpReverse(r, lat, lon)
    \/ \E r \in Requests, lat \in ConcLats, lon \in ConcLons : CallReverse(r, lat, lon)
    \/ \E r \in Requests, rep \in ConcReplies : SearchAnswered(r, rep)
    \/ \E r \in Requests, rep \in ConcReplies : ReverseAnswered(r, rep)
    \/ \E r \in Requests : TransportFails(r)

SpecConc == InitConc /\ [][NextConc]_vars

----------------------------------------------------------------------------
(* Vocabulary of the properties *)

\* The service method of request r was invoked for operation op
Invoked(r, op) == req[r].op = op /\ svc[r] # None

\* The provider answered request r, an op request, with rep
Answered(r, op, rep) == req[r].op = op /\ reply[r] = Some(rep)

\* Request r ended with an HTTPException of the given status
FailedWith(r, code) ==
    /\ pc[r] = "done"
    /\ outcome[r].kind = "HTTPException"
    /\ outcome[r].status_code = code
    /\ req[r].entry = "http" => response[r].status = code

\* Request r returned a result record
Returned(r) == pc[r] = "done" /\ outcome[r].kind = "return"

\* q consists of whitespace only (the empty query included)
Blank(q) == \A i \in 1..Len(q) : q[i] \in {" ", "\t", "\n", "\r"}

\* t is q without its leading and trailing whitespace
IsTrimOf(t, q) ==
    \E i \in 1..(Len(q) + 1), j \in 0..Len(q) :
        /\ t = SubSeq(q, i, j)
        /\ Blank(SubSeq(q, 1, i - 1))
        /\ Blank(SubSeq(q, j + 1, Len(q)))
        /\ t # <<>> => (~Blank(<<t[1]>>) /\ ~Blank(<<t[Len(t)]>>))

\* A raw record with the four fields the mapping requires
WellFormed(d) == {"place_id", "lat", "lon", "display_name"} \subseteq DOMAIN d

----------------------------------------------------------------------------
(* C1 *)

\* C1: a search whose query is empty or whitespace only, with any limit,
\* fails with status 400, and no call to the provider is issued for it.
C1_BlankQueryRejected ==
    \A r \in Requests :
        (Invoked(r, "search") /\ Blank(svc[r][1].query))
            => (FailedWith(r, 400) /\ sent[r] = <<>> /\ reply[r] = None)

C1_Witness ==
    \E r \in Requests :
        /\ Invoked(r, "search")
        /\ svc[r][1].query = <<" ", " ", " ">>
        /\ FailedWith(r, 400)
        /\ sent[r] = <<>>

----------------------------------------------------------------------------
(* C2 *)

\* C2: a reverse lookup with lat outside [-90, 90] or lon outside
\* [-180, 180] fails with status 400 and issues no call to the provider;
\* with both in range the bounds check passes and the one call is issued.
C2_CoordinateBounds ==
    \A r \in Requests :
        Invoked(r, "reverse") =>
            LET lat == svc[r][1].lat
                lon == svc[r][1].lon
            IN  IF lat < -90 \/ lat > 90 \/ lon < -180 \/ lon > 180
                THEN FailedWith(r, 400) /\ sent[r] = <<>> /\ reply[r] = None
                ELSE sent[r] = <<ReverseCall(lat, lon)>>

C2_Witness ==
    \E r \in Requests :
        /\ Invoked(r, "reverse")
        /\ svc[r][1].lat = 90
        /\ svc[r][1].lon = 181
        /\ FailedWith(r, 400)
        /\ sent[r] = <<>>

----------------------------------------------------------------------------
(* C3 *)

\* C3: a search the provider answers with status 200 and an empty sequence
\* fails with status 404, and no search ever returns a SearchResult whose
\* results are empty or whose total is 0.
C3_EmptyIsNotFound ==
    \A r \in Requests :
        /\ Answered(r, "search", [status |-> 200, body |-> ListBody(<<>>)])
                => FailedWith(r, 404)
        /\ (req[r].op = "search" /\ Returned(r))
                => (outcome[r].value.results # <<>> /\ outcome[r].value.total # 0)

C3_Witness ==
    \E r \in Requests :
        /\ Answered(r, "search", [status |-> 200, body |-> ListBody(<<>>)])
        /\ FailedWith(r, 404)
        /\ req[r].entry = "http"

----------------------------------------------------------------------------
(* C4 *)

\* C4: a search the provider answers with status 200 and N >= 1 well-formed
\* records returns a SearchResult with exactly N results, the i-th being the
\* mapping of the i-th record, and total = N; total is the length of results
\* in every SearchResult.
C4_ResultsInProviderOrder ==
    \A r \in Requests :
        /\ (req[r].op = "search" /\ Returned(r))
                => outcome[r].value.total = Len(outcome[r].value.results)
        /\ \A rep \in Replies :
            (/\ Answered(r, "search", rep)
             /\ rep.status = 200
             /\ rep.body.t = "list"
             /\ rep.body.items # <<>>
             /\ \A i \in 1..Len(rep.body.items) : WellFormed(rep.body.items[i]))
            => LET items == rep.body.items
                   result == outcome[r].value
               IN  /\ Returned(r)
                   /\ Len(result.results) = Len(items)
                   /\ result.total = Len(items)
                   /\ \A i \in 1..Len(items) :
                        /\ result.results[i] = build_location_dto(items[i]).value
                        /\ result.results[i].place_id = items[i]["place_id"]
                        /\ result.results[i].lat = items[i]["lat"]

C4_Witness ==
    \E r \in Requests :
        /\ Answered(r, "search", [status |-> 200, body |-> ListBody(<<RecordA, RecordB>>)])
        /\ Returned(r)
        /\ outcome[r].value.total = 2
        /\ outcome[r].value.results[1].place_id = 123456
        /\ outcome[r].value.results[2].place_id = 2

----------------------------------------------------------------------------
(* C5 *)

\* C5: a reverse lookup the provider answers with status 200 and an object
\* that has an "error" field fails with status 404 and returns no
\* ReverseResult, whatever other fields the object has.
C5_ErrorPayloadIsNotFound ==
    \A r \in Requests, rep \in Replies :
        (/\ Answered(r, "reverse", rep)
         /\ rep.status = 200
         /\ rep.body.t = "object"
         /\ "error" \in DOMAIN rep.body.fields)
        => (FailedWith(r, 404) /\ ~Returned(r))

C5_Witness ==
    \E r \in Requests :
        /\ Answered(r, "reverse",
                [status |-> 200, body |-> ObjectBody(With(RecordA, "error", "Unable to geocode"))])
        /\ FailedWith(r, 404)

----------------------------------------------------------------------------
(* C6 *)

\* C6: every ReverseResult returned for reverseLookup(lat, lon) has
\* lat_input = lat and lon_input = lon as the caller submitted them,
\* whatever lat and lon the provider's record carries.
C6_InputEchoed ==
    \A r \in Requests :
        (req[r].op = "reverse" /\ Returned(r))
            => /\ outcome[r].value.lat_input = req[r].lat
               /\ outcome[r].value.lon_input = req[r].lon
               /\ req[r].entry = "http"
                    => /\ response[r].body.lat_input = req[r].lat
                       /\ response[r].body.lon_input = req[r].lon

\* The same caller input answered from two different provider positions
C6_Witness ==
    \E r \in Requests :
        /\ req[r].op = "reverse"
        /\ Returned(r)
        /\ req[r].lat = 37
        /\ req[r].lon = -122
        /\ outcome[r].value.lat = "37.4225"
        /\ outcome[r].value.lon = "-122.0843"
        /\ outcome[r].value.lat_input = 37
        /\ outcome[r].value.lon_input = -122

----------------------------------------------------------------------------
(* C7 *)

\* C7: the query sent to the provider is the caller's query without its
\* leading and trailing whitespace, and every SearchResult carries that
\* same trimmed query in its query field.
C7_TrimmedQuery ==
    \A r \in Requests :
        req[r].op = "search" =>
            /\ \A i \in 1..Len(sent[r]) : IsTrimOf(sent[r][i].q, req[r].q[1])
            /\ Returned(r)
                => /\ IsTrimOf(outcome[r].value.query, req[r].q[1])
                   /\ outcome[r].value.query = sent[r][1].q

C7_Witness ==
    \E r \in Requests :
        /\ req[r].op = "search"
        /\ Returned(r)
        /\ req[r].q = Some(<<" ", "a", " ">>)
        /\ outcome[r].value.query = <<"a">>
        /\ sent[r][1].q = <<"a">>

----------------------------------------------------------------------------
(* C8 *)

\* The message of the static table for the six mapped codes, the generic
\* message naming the code for any other
C8_ExpectedDetail(code) ==
    CASE code = 400 -> "Error 400 Bad Request: Parametros invalidos o faltantes"
      [] code = 403 -> "Error 403 Forbidden: User-Agent requerido o acceso denegado"
      [] code = 404 -> "Error 404 Not Found: Recurso no encontrado"
      [] code = 429 ->
            "Error 429 Too Many Requests: Limite de peticiones excedido. Por favor, intenta mas tarde"
      [] code = 500 -> "Error 500 Internal Server Error: Error interno del servidor"
      [] code = 503 -> "Error 503 Service Unavailable: Servicio temporalmente no disponible"
      [] OTHER ->
            "Error " \o ToString(code) \o " HTTP " \o ToString(code)
                \o ": Error HTTP " \o ToString(code)

\* C8: in search and in reverse lookup, a provider answer with a status
\* other than 200 makes the operation fail with the provider's status code
\* and the message of that code, and no result record is returned.
C8_StatusMirrored ==
    \A r \in Requests, rep \in Replies :
        (reply[r] = Some(rep) /\ rep.status # 200)
            => /\ FailedWith(r, rep.status)
               /\ outcome[r].detail = C8_ExpectedDetail(rep.status)
               /\ ~Returned(r)

C8_Witness ==
    \E r \in Requests :
        /\ req[r].op = "reverse"
        /\ req[r].entry = "http"
        /\ reply[r] # None
        /\ reply[r][1].status = 418
        /\ response[r].status = 418
        /\ outcome[r].detail = "Error 418 HTTP 418: Error HTTP 418"

----------------------------------------------------------------------------
(* C9 *)

\* C9: a search the provider answers with status 200 and a body that is
\* an object, a string, a number or null fails with status 500 and returns
\* no SearchResult.
C9_NonSequenceIs500 ==
    \A r \in Requests, rep \in Replies :
        (/\ Answered(r, "search", rep)
         /\ rep.status = 200
         /\ rep.body.t \in {"object", "string", "number", "null"})
        => (FailedWith(r, 500) /\ ~Returned(r))

C9_Witness ==
    \E r \in Requests :
        /\ Answered(r, "search", [status |-> 200, body |-> ObjectBody(RecordA)])
        /\ FailedWith(r, 500)
        /\ req[r].entry = "http"

----------------------------------------------------------------------------
(* C10 *)

\* The provider answered request r with a payload the mapping reads and
\* in which a record lacks a required field
C10_RecordIncomplete(r) ==
    /\ reply[r] # None
    /\ reply[r][1].status = 200
    /\ \/ /\ req[r].op = "search"
          /\ reply[r][1].body.t = "list"
          /\ \E i \in 1..Len(reply[r][1].body.items) : ~WellFormed(reply[r][1].body.items[i])
       \/ /\ req[r].op = "reverse"
          /\ reply[r][1].body.t = "object"
          /\ "error" \notin DOMAIN reply[r][1].body.fields
          /\ ~WellFormed(reply[r][1].body.fields)

----------------------------------------------------------------------------
(* C11 *)

\* Request r was answered over HTTP with an error
ErrorResponse(r) == pc[r] = "done" /\ req[r].entry = "http" /\ response[r].status # 200

\* The message of the error response of r: the detail of its JSON body, the
\* text of a plain body, nothing when the body is empty
MessageOf(r) ==
    IF outcome[r].kind = "uncaught" THEN response[r].body
    ELSE IF "detail" \in DOMAIN response[r].body THEN response[r].body.detail
    ELSE ""

\* msg reads "Error <code> <name>: <reason>", name and reason not empty
HasErrorForm(msg, code) ==
    LET prefix == "Error " \o ToString(code) \o " "
    IN  /\ Len(msg) > Len(prefix)
        /\ SubSeq(msg, 1, Len(prefix)) = prefix
        /\ \E i \in (Len(prefix) + 2)..(Len(msg) - 2) : SubSeq(msg, i, i + 1) = ": "

\* The errors the claim lists: every HTTPException the code raises (empty
\* query, coordinates out of range, no results, error payload, non-200
\* status, non-sequence body), the rejection by the parameter layer, and a
\* record that lacks a required field
C11_Listed(r) == outcome[r].kind # "uncaught" \/ C10_RecordIncomplete(r)

\* C11: every error that search or reverse surfaces to the caller is an
\* HTTP response whose message reads "Error <code> <name>: <reason>", with
\* <code> the status code of the response (stated for the responses whose
\* status carries a body).
C11_AllErrorsFormatted ==
    \A r \in Requests :
        (ErrorResponse(r) /\ C11_Listed(r) /\ BodyAllowed(response[r].status))
            => HasErrorForm(MessageOf(r), response[r].status)

\* C11 without the record that lacks a required field: the errors the code
\* raises itself are formatted
C11_RaisedErrorsFormatted ==
    \A r \in Requests :
        (ErrorResponse(r) /\ outcome[r].kind # "uncaught" /\ BodyAllowed(response[r].status))
            => HasErrorForm(MessageOf(r), response[r].status)

----------------------------------------------------------------------------
(* C12 *)

\* C12: in GET search a limit below 1 or above 50 is answered 422 by the
\* parameter layer, without the Transformation Layer being invoked and
\* without any call to the provider; an omitted limit reaches the
\* Transformation Layer as 10, a limit in 1..50 unchanged.
C12_LimitParameter ==
    \A r \in Requests :
        (req[r].op = "search" /\ req[r].entry = "http") =>
            IF req[r].limit # None /\ (req[r].limit[1] < 1 \/ req[r].limit[1] > 50)
            THEN /\ pc[r] = "done"
                 /\ response[r].status = 422
                 /\ svc[r] = None
                 /\ outcome[r] = NoOutcome
                 /\ sent[r] = <<>>
            ELSE req[r].q # None =>
                    /\ svc[r] # None
                    /\ svc[r][1].limit = IF req[r].limit = None THEN 10 ELSE req[r].limit[1]
                    /\ \A i \in 1..Len(sent[r]) : sent[r][i].limit = svc[r][1].limit

C12_Witness ==
    \E r \in Requests :
        /\ req[r].op = "search"
        /\ req[r].entry = "http"
        /\ req[r].q = Some(<<"a">>)
        /\ req[r].limit = Some(51)
        /\ response[r].status = 422
        /\ response[r].body.detail
             = "Error 422 Unprocessable Content: query -> limit: Input should be less than or equal to 50"
        /\ svc[r] = None
        /\ sent[r] = <<>>

\* The omitted limit and the largest accepted one reach the provider
C12_WitnessAccepted ==
    \E r \in Requests :
        /\ req[r].op = "search"
        /\ req[r].entry = "http"
        /\ req[r].limit = None
        /\ Len(sent[r]) = 1
        /\ sent[r][1].limit = 10

----------------------------------------------------------------------------
(* C13 *)

\* The coordinates of request r, a reverse lookup, are out of range
C13_OutOfRange(r) ==
    /\ req[r].op = "reverse"
    /\ \/ req[r].lat < -90
       \/ req[r].lat > 90
       \/ req[r].lon < -180
       \/ req[r].lon > 180

\* C13 as claimed: a GET reverse request with lat outside -90..90 or lon
\* outside -180..180 is answered with status 400.
C13_OutOfRangeIs400 ==
    \A r \in Requests :
        (C13_OutOfRange(r) /\ req[r].entry = "http" /\ pc[r] = "done")
            => response[r].status = 400

\* C13 as amended: such a GET reverse request is answered with status 422
\* by the parameter layer and the Transformation Layer is not invoked; the
\* check of the Transformation Layer, reached by a direct call only, fails
\* with status 400.
C13_OutOfRangeIs422 ==
    \A r \in Requests :
        C13_OutOfRange(r) =>
            IF req[r].entry = "http"
            THEN /\ pc[r] = "done"
                 /\ response[r].status = 422
                 /\ svc[r] = None
                 /\ outcome[r] = NoOutcome
                 /\ sent[r] = <<>>
            ELSE /\ pc[r] = "done"
                 /\ outcome[r].kind = "HTTPException"
                 /\ outcome[r].status_code = 400
                 /\ sent[r] = <<>>

C13_Witness ==
    \E r \in Requests :
        /\ req[r].op = "reverse"
        /\ req[r].entry = "http"
        /\ req[r].lat = 91
        /\ req[r].lon = -181
        /\ response[r].status = 422
        /\ response[r].body.detail
             = "Error 422 Unprocessable Content: query -> lat: Input should be less than or equal to 90; query -> lon: Input should be greater than or equal to -180"
        /\ svc[r] = None

----------------------------------------------------------------------------
(* C14 *)

\* The provider answered the HTTP request r with the status code
C14_ProviderStatus(r, code) ==
    /\ pc[r] = "done"
    /\ req[r].entry = "http"
    /\ reply[r] # None
    /\ reply[r][1].status = code

----------------------------------------------------------------------------
(* C15 *)

\* C15: over the lifetime of a search or reverse request at most one call
\* goes out to the provider, also when that call fails or is answered with
\* an error, and exactly one has gone out for every request answered with
\* a result.
C15_OneOutboundCall ==
    \A r \in Requests :
        /\ Len(sent[r]) <= 1
        /\ pc[r] = "awaiting" => Len(sent[r]) = 1
        /\ (reply[r] # None \/ Returned(r) \/ response[r].status = 200) => Len(sent[r]) = 1

\* An error of the provider is answered after one call
C15_Witness ==
    \E r \in Requests :
        /\ pc[r] = "done"
        /\ reply[r] # None
        /\ reply[r][1].status = 503
        /\ response[r].status = 503
        /\ Len(sent[r]) = 1

\* A result is answered after one call
C15_WitnessResult ==
    \E r \in Requests :
        /\ Returned(r)
        /\ response[r].status = 200
        /\ Len(sent[r]) = 1

----------------------------------------------------------------------------
(* C16 *)

\* How request r ends when it runs alone: computed from its own parameters
\* and from the reply to its own call (no reply: the transport failed)
C16_Alone(r) ==
    LET entry == req[r].entry
        errors ==
            IF entry # "http" THEN <<>>
            ELSE IF req[r].op = "search" THEN SearchParamErrors(req[r].q, req[r].limit)
            ELSE ReverseParamErrors(req[r].lat, req[r].lon)
        enter ==
            IF req[r].op = "search"
            THEN SearchEnter(req[r].q[1], LimitParam(req[r].limit))
            ELSE ReverseEnter(req[r].lat, req[r].lon)
        after ==
            IF reply[r] = None THEN Uncaught("httpx.TransportError", "")
            ELSE IF req[r].op = "search"
            THEN SearchAfterClient(strip(req[r].q[1]), ClientSearch(reply[r][1]))
            ELSE ReverseAfterClient(req[r].lat, req[r].lon,
                                    ClientReverse(reply[r][1], req[r].lat, req[r].lon))
        o == IF Raised(enter) THEN enter ELSE after
    IN  IF errors # <<>>
        THEN [outcome |-> NoOutcome, response |-> validation_exception_handler(errors)]
        ELSE [outcome |-> o, response |-> RespondTo(entry, o)]

\* Every request that has ended has ended as it does alone
C16_AsAlone ==
    \A r \in Requests :
        pc[r] = "done"
            => /\ outcome[r] = C16_Alone(r).outcome
               /\ response[r] = C16_Alone(r).response

\* A step leaves alone every request but the one that takes it
C16_OwnStateOnly ==
    \A r \in Requests :
        pc'[r] = pc[r]
            => /\ req'[r] = req[r]
               /\ client'[r] = client[r]
               /\ svc'[r] = svc[r]
               /\ sent'[r] = sent[r]
               /\ reply'[r] = reply[r]
               /\ outcome'[r] = outcome[r]
               /\ response'[r] = response[r]

\* C16: under every interleaving of concurrent search and reverse
\* requests, the response of each request depends only on its own
\* parameters and on the provider's reply to its own call: it is the
\* response the request gets alone, and no step of one request changes
\* anything of another.
C16_Isolation == []C16_AsAlone /\ [][C16_OwnStateOnly]_vars

\* A search is answered while another search, of another query, is in flight
C16_Witness ==
    /\ pc[1] = "awaiting"
    /\ req[1].op = "search"
    /\ sent[1][1].q = <<"a">>
    /\ req[2].op = "search"
    /\ Returned(2)
    /\ outcome[2].value.query = <<"b">>
    /\ response[2].status = 200

----------------------------------------------------------------------------
(* C17 *)

\* P holds of every raw record of the reply to r and the record mapped from
\* it: of each Location of a SearchResult, of the ReverseResult
EachMapped(r, P(_, _)) ==
    (Returned(r) /\ reply[r] # None) =>
        IF req[r].op = "search"
        THEN \A i \in 1..Len(outcome[r].value.results) :
                P(reply[r][1].body.items[i], outcome[r].value.results[i])
        ELSE P(reply[r][1].body.fields, outcome[r].value)

C17_FieldsPassedThrough(raw, dto) ==
    dto.address # None =>
        \A f \in {"house_number", "road", "neighbourhood", "city", "state", "postcode",
                  "country", "country_code"} :
            /\ f \in DOMAIN raw["address"] => dto.address[1][f] = Some(raw["address"][f])
            /\ f \notin DOMAIN raw["address"] => dto.address[1][f] = None
            /\ dto.address[1][f] = Some("") => f \in DOMAIN raw["address"]

\* C17: each of the eight fields of an Address equals the raw value when
\* the raw address has the key and is absent when it has not; no missing
\* key becomes an empty string or another default.
C17_AddressPassThrough == \A r \in Requests : EachMapped(r, C17_FieldsPassedThrough)

\* An address without postcode: postcode absent, the other fields as given
C17_Witness ==
    \E r \in Requests :
        /\ req[r].op = "reverse"
        /\ Returned(r)
        /\ outcome[r].value.address # None
        /\ "postcode" \notin DOMAIN reply[r][1].body.fields["address"]
        /\ outcome[r].value.address[1]["postcode"] = None
        /\ outcome[r].value.address[1]["city"] = Some("Mountain View")

----------------------------------------------------------------------------
(* C18 *)

C18_AddressIffKey(raw, dto) == (dto.address # None) <=> ("address" \in DOMAIN raw)

\* C18 as stated: the output has an Address whenever the raw record has an
\* address sub-object and none whenever it has no address key.  Violated by
\* a raw record whose address is the empty object: no Address is embedded.
C18_AddressWheneverSubObject == \A r \in Requests : EachMapped(r, C18_AddressIffKey)

C18_AddressIffNonEmpty(raw, dto) ==
    /\ (dto.address # None) <=> ("address" \in DOMAIN raw /\ DOMAIN raw["address"] # {})
    /\ (dto.address # None /\ DOMAIN raw["address"] \cap AddressFields = {}) =>
            \A f \in AddressFields : dto.address[1][f] = None

\* C18 (amended): the output has an Address exactly when the raw record has
\* a non-empty address sub-object, one holding only unrecognised keys
\* included (its Address has every field absent); there is no Address when
\* the address key is missing or the address is the empty object.
C18_AddressIffNonEmptySubObject == \A r \in Requests : EachMapped(r, C18_AddressIffNonEmpty)

\* A Location mapped from an address of unrecognised keys only
C18_Witness ==
    \E r \in Requests :
        /\ req[r].op = "search"
        /\ Returned(r)
        /\ \E i \in 1..Len(outcome[r].value.results) :
              LET raw == reply[r][1].body.items[i]
                  dto == outcome[r].value.results[i]
              IN  /\ "address" \in DOMAIN raw
                  /\ DOMAIN raw["address"] = {"suburb"}
                  /\ dto.address = Some([f \in AddressFields |-> None])

\* A ReverseResult whose raw record has the empty object for address
C18_WitnessEmpty ==
    \E r \in Requests :
        /\ req[r].op = "reverse"
        /\ Returned(r)
        /\ "address" \in DOMAIN reply[r][1].body.fields
        /\ DOMAIN reply[r][1].body.fields["address"] = {}
        /\ outcome[r].value.address = None

----------------------------------------------------------------------------
(* C19 *)

\* The detail of the 404 that reverse lookup raises for an error payload
C19_NotFoundDetail(lat, lon) ==
    "Error 404 Not Found: No se encontro una direccion para las coordenadas ("
        \o FloatStr(lat) \o ", " \o FloatStr(lon) \o ")"

\* The detail of the 500 that search raises for a body that is no sequence
C19_ContractDetail ==
    "Error 500 Internal Server Error: Respuesta inesperada de la API de Nominatim"

\* C19: a provider reply with a status other than 200 always yields the
\* error carrying the provider's status, whatever its body: a reverse reply
\* with an "error" field is not turned into the 404 of a missing address, a
\* search reply that is no sequence not into the 500 of a broken contract,
\* and a search reply that is a non-empty sequence is not returned.
C19_StatusBeforeBody ==
    \A r \in Requests :
        (reply[r] # None /\ reply[r][1].status # 200) =>
            LET rep == reply[r][1]
            IN  /\ FailedWith(r, rep.status)
                /\ (req[r].op = "reverse" /\ rep.body.t = "object"
                        /\ "error" \in DOMAIN rep.body.fields)
                       => outcome[r].detail # C19_NotFoundDetail(svc[r][1].lat, svc[r][1].lon)
                /\ (req[r].op = "search" /\ rep.body.t # "list")
                       => outcome[r].detail # C19_ContractDetail
                /\ (req[r].op = "search" /\ rep.body.t = "list" /\ rep.body.items # <<>>)
                       => (~Returned(r) /\ "value" \notin DOMAIN outcome[r])

\* Status 500 with an error payload, in reverse lookup
C19_Witness ==
    \E r \in Requests :
        /\ req[r].op = "reverse"
        /\ reply[r] = Some([status |-> 500, body |-> ObjectBody(ErrorRecord)])
        /\ outcome[r].status_code = 500
        /\ outcome[r].detail = "Error 500 Internal Server Error: Error interno del servidor"

\* Status 404 with a string body, status 503 with a record, in search
C19_WitnessSearch ==
    \E r \in Requests :
        /\ req[r].op = "search"
        /\ reply[r] # None
        /\ \/ reply[r][1] = [status |-> 404, body |-> StringBody("error")]
           \/ reply[r][1] = [status |-> 503, body |-> ListBody(<<RecordA>>)]
        /\ outcome[r].status_code = reply[r][1].status

----------------------------------------------------------------------------
(* C20 *)

C20_LicenceDefault(raw, dto) == "licence" \notin DOMAIN raw => dto.licence = ""

\* C20: a raw record without the licence key does not fail the operation:
\* when it has the other required fields and the provider answered 200,
\* the Location or ReverseResult is returned, with licence equal to the
\* empty string (not absent, and not a contract violation).
C20_MissingLicenceIsEmpty ==
    \A r \in Requests :
        /\ EachMapped(r, C20_LicenceDefault)
        /\ (pc[r] = "done" /\ reply[r] # None /\ reply[r][1].status = 200) =>
              LET body == reply[r][1].body
                  Complete(d) == {"place_id", "lat", "lon", "display_name"} \subseteq DOMAIN d
              IN  /\ (req[r].op = "search" /\ body.t = "list" /\ body.items # <<>>
                        /\ \A i \in 1..Len(body.items) : Complete(body.items[i]))
                       => Returned(r)
                  /\ (req[r].op = "reverse" /\ body.t = "object"
                        /\ "error" \notin DOMAIN body.fields /\ Complete(body.fields))
                       => Returned(r)

\* A Location mapped from a record without licence
C20_Witness ==
    \E r \in Requests :
        /\ req[r].op = "search"
        /\ Returned(r)
        /\ \E i \in 1..Len(outcome[r].value.results) :
              /\ "licence" \notin DOMAIN reply[r][1].body.items[i]
              /\ outcome[r].value.results[i].licence = ""
        /\ req[r].entry = "http" => response[r].body.results[1].licence = ""

\* A ReverseResult mapped from a record without licence
C20_WitnessReverse ==
    \E r \in Requests :
        /\ req[r].op = "reverse"
        /\ Returned(r)
        /\ "licence" \notin DOMAIN reply[r][1].body.fields
        /\ outcome[r].value.licence = ""

----------------------------------------------------------------------------
(* C21 *)

\* Request r came over HTTP and passed the parameter layer: its handler
\* body has been entered
C21_HandlerRan(r) == req[r].entry = "http" /\ svc[r] # None

\* One client per handler body, none without one; open while the body
\* waits for the provider, closed once the request has been answered
C21_OneClient ==
    \A r \in Requests :
        /\ client[r].opened = (IF C21_HandlerRan(r) THEN 1 ELSE 0)
        /\ client[r].closed <= client[r].opened
        /\ (C21_HandlerRan(r) /\ pc[r] = "awaiting") => client[r].closed = 0
        /\ pc[r] = "done" => client[r].closed = client[r].opened

\* C21: every search or reverse request that reaches the handler body
\* opens exactly one HTTP client, and that client is eventually closed on
\* every path out of the handler (returned result, error raised before any
\* outbound call, error of the provider, failure of the mapping); no client
\* is open once its request has been answered.
C21_ClientClosedOnEveryPath ==
    /\ []C21_OneClient
    /\ \A r \in {1} :
          C21_HandlerRan(r) ~> (pc[r] = "done" /\ client[r] = [opened |-> 1, closed |-> 1])

\* The mapping failed on a record without a required field: client closed
C21_Witness ==
    \E r \in Requests :
        /\ C21_HandlerRan(r)
        /\ pc[r] = "done"
        /\ outcome[r].kind = "uncaught"
        /\ outcome[r].exc = "KeyError"
        /\ Len(sent[r]) = 1
        /\ client[r] = [opened |-> 1, closed |-> 1]

\* The blank query refused before any outbound call: client opened and closed
C21_WitnessBeforeCall ==
    \E r \in Requests :
        /\ C21_HandlerRan(r)
        /\ FailedWith(r, 400)
        /\ sent[r] = <<>>
        /\ client[r] = [opened |-> 1, closed |-> 1]

\* The client open while the handler waits for the provider
C21_WitnessOpen ==
    \E r \in Requests :
        /\ C21_HandlerRan(r)
        /\ pc[r] = "awaiting"
        /\ client[r] = [opened |-> 1, closed |-> 0]

\* The client closed after a result, after a 404 and after a provider error
C21_WitnessAnswered ==
    \E r \in Requests :
        /\ C21_HandlerRan(r)
        /\ reply[r] # None
        /\ Returned(r) \/ FailedWith(r, 404) \/ FailedWith(r, 503)
        /\ client[r] = [opened |-> 1, closed |-> 1]

====
